---- MODULE Spec2Model ----
(***************************************************************************)
(* A model of jaxrl_m/common.py: the TrainState record (create, __call__,  *)
(* apply_gradients, apply_loss_fn) and the helpers shard_batch and         *)
(* target_update.                                                          *)
(*                                                                         *)
(* TrainState instances are immutable values; the model keeps every        *)
(* instance the program has built in the sequence insts, so that "the      *)
(* original instance is unchanged" is a statement about insts.             *)
(***************************************************************************)
EXTENDS Integers, Sequences, FiniteSets, TLC

VARIABLES
    insts,      \* the TrainState instances built so far, in order of construction
    last,       \* the last operation called: [op, self, other]
    err,        \* the exception the last operation raised, or NoError
    out,        \* what the last operation returned besides a TrainState
    ndev,       \* jax.local_device_count(), also the size of the pmap axis
    replicas,   \* per-replica position and values inside a pmapped apply_loss_fn
    call        \* has_aux and pmap_axis of the pmapped apply_loss_fn call in progress

vars == <<insts, last, err, out, ndev, replicas, call>>

(***************************************************************************)
(* Bounds of the model.                                                    *)
(***************************************************************************)
MaxInsts == 3       \* instances built in one behaviour
MaxDevices == 3     \* local devices seen by shard_batch
MaxReplicas == 2    \* replicas of the pmap axis
MaxLead == 4        \* leading dimension of a batch leaf
MaxStep == 3        \* step counter reached inside the pmapped loop

(***************************************************************************)
(* Leaf values.  A leaf is a float scalar: <<n, d>> with d > 0 is the      *)
(* number n/d in lowest terms; <<1, 0>>, <<-1, 0>> and <<0, 0>> are the    *)
(* IEEE values +inf, -inf and NaN that jnp arithmetic produces.            *)
(***************************************************************************)
RECURSIVE GCD(_, _)
GCD(a, b) == IF b = 0 THEN a ELSE GCD(b, a % b)

Abs(n) == IF n < 0 THEN -n ELSE n

Sign(n) == IF n > 0 THEN 1 ELSE IF n < 0 THEN -1 ELSE 0

Norm(n, d) ==
    IF d = 0 THEN <<Sign(n), 0>>
    ELSE LET s == IF d < 0 THEN -1 ELSE 1
             g == GCD(Abs(n), Abs(d))
         IN  <<(s * n) \div g, (s * d) \div g>>

Fin(n) == <<n, 1>>
Zero == Fin(0)
One == Fin(1)
Half == <<1, 2>>
PosInf == <<1, 0>>
NegInf == <<-1, 0>>
NaN == <<0, 0>>

IsFinite(a) == a[2] # 0

\* a * b on floats: inf * 0 and NaN * x are NaN
FMul(a, b) == Norm(a[1] * b[1], a[2] * b[2])

\* a + b on floats: inf + (-inf) and NaN + x are NaN, inf + inf is inf
FAdd(a, b) ==
    IF IsFinite(a) \/ IsFinite(b)
    THEN Norm(a[1] * b[2] + b[1] * a[2], a[2] * b[2])
    ELSE IF a = b THEN a ELSE NaN

FNeg(a) == <<-a[1], a[2]>>

FSub(a, b) == FAdd(a, FNeg(b))

\* a < b on floats (false when either is NaN)
FLess(a, b) ==
    IF a = NaN \/ b = NaN THEN FALSE
    ELSE IF IsFinite(a) /\ IsFinite(b) THEN a[1] * b[2] < b[1] * a[2]
    ELSE IF a = b THEN FALSE
    ELSE a = NegInf \/ b = PosInf

\* jnp.max / jnp.min of two values: NaN propagates
FMax(a, b) == IF a = NaN \/ b = NaN THEN NaN ELSE IF FLess(a, b) THEN b ELSE a
FMin(a, b) == IF a = NaN \/ b = NaN THEN NaN ELSE IF FLess(b, a) THEN b ELSE a

(***************************************************************************)
(* Pytrees.  A parameter tree is a function from leaf names to leaf        *)
(* values; its structure is its domain.                                    *)
(***************************************************************************)
Structure(tree) == DOMAIN tree

\* jax.tree_map(f, a, b) raises unless both trees have the same structure
SameStructure(a, b) == Structure(a) = Structure(b)

(***************************************************************************)
(* The optimizer transform tx (optax, supplied by the caller).  NoTx is    *)
(* tx = None.  "sgd" is optax.sgd(1.0): updates = -grads, and its update   *)
(* hands back the state it was given.  "momentum" is                       *)
(* optax.sgd(1.0, momentum=0.5): its state holds a trace with the          *)
(* structure of params.                                                    *)
(***************************************************************************)
NoTx == "None"
TxSet == {"sgd", "momentum"}
Decay == Half

NoneState == [kind |-> "None"]

\* tx.init(params)
TxInit(tx, params) ==
    IF tx = "momentum"
    THEN [kind |-> "TraceState", trace |-> [k \in DOMAIN params |-> Zero]]
    ELSE [kind |-> "EmptyState"]

\* the trace tx.update computes: g + decay * t, leaf by leaf
NewTrace(grads, opt_state) ==
    [k \in DOMAIN grads |-> FAdd(grads[k], FMul(Decay, opt_state.trace[k]))]

\* first component of tx.update(grads, opt_state, params)
TxUpdates(tx, grads, opt_state) ==
    IF tx = "momentum"
    THEN [k \in DOMAIN grads |-> FNeg(NewTrace(grads, opt_state)[k])]
    ELSE [k \in DOMAIN grads |-> FNeg(grads[k])]

\* second component of tx.update(grads, opt_state, params)
TxNewState(tx, grads, opt_state) ==
    IF tx = "momentum"
    THEN [kind |-> "TraceState", trace |-> NewTrace(grads, opt_state)]
    ELSE opt_state

\* optax.apply_updates(params, updates): p + u, leaf by leaf
ApplyUpdates(params, updates) ==
    [k \in DOMAIN params |-> FAdd(params[k], updates[k])]

(***************************************************************************)
(* TrainState.                                                             *)
(***************************************************************************)
Fields == {"step", "apply_fn", "model_def", "params", "tx", "opt_state"}

NoError == "none"
NoKwargs == [k \in {} |-> 0]
NoOut == <<>>

\* model_def.apply, the bound method of a model definition
ApplyOf(model_def) == <<model_def, "apply">>

\* cls(step=1, apply_fn=..., model_def=..., params=..., tx=..., opt_state=..., **kwargs):
\* every field is passed by name, so any extra keyword is a TypeError
CreateErr(kwargs) == IF DOMAIN kwargs # {} THEN "TypeError" ELSE NoError

\* mutant: tx.init is never called
CreateStateNoInit(model_def, params, tx) ==
    [step |-> 1,
     apply_fn |-> ApplyOf(model_def),
     model_def |-> model_def,
     params |-> params,
     tx |-> tx,
     opt_state |-> NoneState]

CreateState(model_def, params, tx) ==
    [step |-> 1,
     apply_fn |-> ApplyOf(model_def),
     model_def |-> model_def,
     params |-> params,
     tx |-> tx,
     opt_state |-> IF tx # NoTx THEN TxInit(tx, params) ELSE NoneState]

\* {**a, **b}: the keys of both, b's value where both have the key
DictMerge(a, b) ==
    [k \in DOMAIN a \cup DOMAIN b |-> IF k \in DOMAIN b THEN b[k] ELSE a[k]]

\* self.replace(**changes): a new record, the fields not named kept
Replace(self, changes) ==
    [f \in Fields |-> IF f \in DOMAIN changes THEN changes[f] ELSE self[f]]

\* mutant: a missing tx is taken for the identity update
ApplyGradientsErrNoTx(self, grads, kwargs) ==
    IF ~SameStructure(grads, self.params) THEN "ValueError"
    ELSE IF \/ DOMAIN kwargs \cap {"step", "params", "opt_state"} # {}
            \/ ~(DOMAIN kwargs \subseteq Fields)
    THEN "TypeError"
    ELSE NoError

\* the exception apply_gradients raises, or NoError: self.tx.update on None,
\* a tree_map over trees of different structure, a keyword given twice to replace
\* or one that names no field
ApplyGradientsErr(self, grads, kwargs) ==
    IF self.tx = NoTx THEN "AttributeError"
    ELSE IF ~SameStructure(grads, self.params) THEN "ValueError"
    ELSE IF \/ DOMAIN kwargs \cap {"step", "params", "opt_state"} # {}
            \/ ~(DOMAIN kwargs \subseteq Fields)
    THEN "TypeError"
    ELSE NoError

\* mutant: the step is not incremented
NextStepKept(self) == self.step

\* the step apply_gradients gives the new instance
NextStep(self) == self.step + 1

\* mutant: the new opt_state is dropped
ApplyGradientsStateNoOpt(self, grads, kwargs) ==
    LET updates == TxUpdates(self.tx, grads, self.opt_state)
        new_params == ApplyUpdates(self.params, updates)
    IN  Replace(self,
                DictMerge([step |-> NextStep(self),
                           params |-> new_params,
                           opt_state |-> NoneState],
                          kwargs))

\* the instance apply_gradients returns
ApplyGradientsState(self, grads, kwargs) ==
    LET updates == TxUpdates(self.tx, grads, self.opt_state)
        new_opt_state == TxNewState(self.tx, grads, self.opt_state)
        new_params == ApplyUpdates(self.params, updates)
    IN  Replace(self,
                DictMerge([step |-> NextStep(self),
                           params |-> new_params,
                           opt_state |-> new_opt_state],
                          kwargs))

\* mutant: the weights of the two trees are swapped
BlendSwapped(p, tp, tau) == FAdd(FMul(tp, tau), FMul(p, FSub(One, tau)))

\* p * tau + tp * (1 - tau)
Blend(p, tp, tau) == FAdd(FMul(p, tau), FMul(tp, FSub(One, tau)))

TargetUpdateErr(model, target_model) ==
    IF SameStructure(model.params, target_model.params) THEN NoError ELSE "ValueError"

\* mutant: replace is called on model, not on target_model
TargetUpdateStateOfModel(model, target_model, tau) ==
    LET new_target_params ==
            [k \in DOMAIN model.params |->
                Blend(model.params[k], target_model.params[k], tau)]
    IN  Replace(model, [params |-> new_target_params])

TargetUpdateState(model, target_model, tau) ==
    LET new_target_params ==
            [k \in DOMAIN model.params |->
                Blend(model.params[k], target_model.params[k], tau)]
    IN  Replace(target_model, [params |-> new_target_params])

(***************************************************************************)
(* __call__.  An omitted argument is None; a given one is Some(value).     *)
(* A method is None, a name (str) or a function; getattr(model_def, name)  *)
(* is the function of that name bound to model_def, or an AttributeError.  *)
(* The positional and keyword arguments are handed on to apply_fn as they  *)
(* are and are left out.                                                   *)
(***************************************************************************)
None == <<>>
Some(v) == <<v>>

NoMethod == [kind |-> "None"]
MethodName(name) == [kind |-> "str", name |-> name]
Function(owner, name) == [kind |-> "function", owner |-> owner, name |-> name]

\* the attributes a model definition has
Attributes == {"apply", "encode"}

CallParams(self, params) == IF params = None THEN self.params ELSE params[1]

\* mutant: the merge is done the other way round, {**extra_variables, **variables}
CallVariablesKeepParams(self, params, extra_variables) ==
    LET variables == [params |-> CallParams(self, params)]
    IN  IF extra_variables # None
        THEN DictMerge(extra_variables[1], variables)
        ELSE variables

CallVariables(self, params, extra_variables) ==
    LET variables == [params |-> CallParams(self, params)]
    IN  IF extra_variables # None
        THEN DictMerge(variables, extra_variables[1])
        ELSE variables

CallErr(method) ==
    IF method.kind = "str" /\ method.name \notin Attributes
    THEN "AttributeError"
    ELSE NoError

CallMethod(self, method) ==
    IF method.kind = "str" THEN Function(self.model_def, method.name) ELSE method

(***************************************************************************)
(* apply_loss_fn.  jax.grad(loss_fn)(self.params) is a tree with the       *)
(* structure of self.params, chosen by the caller's loss_fn; with has_aux  *)
(* the loss_fn also returns an info mapping.  A leaf is a scalar, so the   *)
(* per-leaf max and min are the leaf and the per-leaf norm is its          *)
(* absolute value.  Sqrt(x) stands for the square root of x.               *)
(***************************************************************************)
Sqrt(x) == <<"sqrt", x>>

RECURSIVE LeavesMax(_, _)
LeavesMax(tree, keys) ==
    LET k == CHOOSE x \in keys : TRUE
    IN  IF keys \ {k} = {} THEN tree[k]
        ELSE FMax(tree[k], LeavesMax(tree, keys \ {k}))

RECURSIVE LeavesMin(_, _)
LeavesMin(tree, keys) ==
    LET k == CHOOSE x \in keys : TRUE
    IN  IF keys \ {k} = {} THEN tree[k]
        ELSE FMin(tree[k], LeavesMin(tree, keys \ {k}))

RECURSIVE LeavesSumSq(_, _)
LeavesSumSq(tree, keys) ==
    IF keys = {} THEN Zero
    ELSE LET k == CHOOSE x \in keys : TRUE
         IN  FAdd(FMul(tree[k], tree[k]), LeavesSumSq(tree, keys \ {k}))

\* the three diagnostics info.update adds
GradStats(grads) ==
    [max |-> LeavesMax(grads, DOMAIN grads),
     min |-> LeavesMin(grads, DOMAIN grads),
     norm |-> Sqrt(LeavesSumSq(grads, DOMAIN grads))]

\* info after info.update({"grad/max": ..., "grad/min": ..., "grad/norm": ...})
InfoUpdate(info, grads) ==
    LET stats == GradStats(grads)
    IN  DictMerge(info, ("grad/max" :> stats.max) @@ ("grad/min" :> stats.min)
                            @@ ("grad/norm" :> stats.norm))

(***************************************************************************)
(* jax.lax.pmean(x, axis_name): on every replica of the axis, the mean     *)
(* over the replicas of their values of x (psum divided by the axis size). *)
(* vals maps each replica 1..n to its tree.                                *)
(***************************************************************************)
RECURSIVE Psum(_, _, _)
Psum(vals, k, n) ==
    IF n = 0 THEN Zero ELSE FAdd(Psum(vals, k, n - 1), vals[n][k])

\* mutant: the local value is used, the collective is skipped
PmeanLocal(vals, r, n) == vals[r]

Pmean(vals, r, n) ==
    [k \in DOMAIN vals[r] |-> FMul(Psum(vals, k, n), <<1, n>>)]

(***************************************************************************)
(* shard_batch.  A batch is a mapping from names to leaves; a leaf is the  *)
(* sequence of its rows along the leading dimension.                       *)
(***************************************************************************)
\* mutant: the rows are dealt out column-major
ReshapeColumnMajor(x, d) ==
    LET n == Len(x) \div d
    IN  [a \in 1..d |-> [b \in 1..n |-> x[(b - 1) * d + a]]]

\* x.reshape((d, x.shape[0] // d, *x.shape[1:])), row-major
Reshape(x, d) ==
    LET n == Len(x) \div d
    IN  [a \in 1..d |-> [b \in 1..n |-> x[(a - 1) * n + b]]]

ShardErr(batch, d) ==
    IF \E k \in DOMAIN batch : Len(batch[k]) % d # 0
    THEN "AssertionError"
    ELSE NoError

ShardBatch(batch, d) == [k \in DOMAIN batch |-> Reshape(batch[k], d)]

(***************************************************************************)
(* Inputs.                                                                 *)
(***************************************************************************)
ModelDefs == {"mlp", "cnn"}
\* the initial parameter trees of a model definition: "mlp" has one leaf, "cnn" two
ParamInputs(model_def) ==
    IF model_def = "mlp"
    THEN {[w |-> Fin(2)]}
    ELSE {[w |-> One, b |-> Zero]}
GradInputs == {[w |-> One], [w |-> Fin(-1), b |-> One]}
TauInputs == {Zero, Half, One}
CreateKwargs == {NoKwargs, [step |-> 5]}
ReplaceKwargs == {NoKwargs, [tx |-> NoTx], [tx |-> "sgd"], [step |-> 7]}
InfoInputs == {("loss" :> One) @@ ("grad/max" :> Zero)}
ParamArgs == {None, Some([w |-> Zero])}
ExtraVariables ==
    {None, Some(NoKwargs), Some([batch_stats |-> [mean |-> One]]),
     Some([params |-> [w |-> Fin(3)], batch_stats |-> [mean |-> Zero]])}
Methods == {NoMethod, MethodName("encode"), MethodName("decode"),
            Function("mlp", "encode")}

Called(op, self, other) == [op |-> op, self |-> self, other |-> other]

(***************************************************************************)
(* Operations.  A call that raises builds no instance.                     *)
(***************************************************************************)
Return(state, e, o) ==
    /\ insts' = IF e = NoError THEN Append(insts, state) ELSE insts
    /\ err' = e
    /\ out' = o
    /\ UNCHANGED <<ndev, replicas, call>>

create(model_def, params, tx, kwargs) ==
    /\ Len(insts) < MaxInsts
    /\ last' = Called("create", 0, 0)
    /\ Return(CreateState(model_def, params, tx), CreateErr(kwargs), NoOut)

apply_gradients(i, grads, kwargs) ==
    /\ Len(insts) < MaxInsts
    /\ i \in 1..Len(insts)
    /\ last' = Called("apply_gradients", i, 0)
    /\ LET e == ApplyGradientsErr(insts[i], grads, kwargs)
       IN  Return(IF e = NoError
                  THEN ApplyGradientsState(insts[i], grads, kwargs)
                  ELSE insts[i],
                  e, NoOut)

\* mutant: the target is updated in place
target_update_in_place(i, j, tau) ==
    /\ Len(insts) < MaxInsts
    /\ i \in 1..Len(insts)
    /\ j \in 1..Len(insts)
    /\ last' = Called("target_update", j, i)
    /\ err' = TargetUpdateErr(insts[i], insts[j])
    /\ insts' = IF err' = NoError
                THEN Append([insts EXCEPT ![j] = TargetUpdateState(insts[i], insts[j], tau)],
                            TargetUpdateState(insts[i], insts[j], tau))
                ELSE insts
    /\ out' = NoOut
    /\ UNCHANGED <<ndev, replicas, call>>

target_update(i, j, tau) ==
    /\ Len(insts) < MaxInsts
    /\ i \in 1..Len(insts)
    /\ j \in 1..Len(insts)
    /\ last' = Called("target_update", j, i)
    /\ Return(TargetUpdateState(insts[i], insts[j], tau),
              TargetUpdateErr(insts[i], insts[j]), NoOut)

apply_loss_fn(i, grads, has_aux, info) ==
    /\ Len(insts) < MaxInsts
    /\ i \in 1..Len(insts)
    /\ SameStructure(grads, insts[i].params)
    /\ last' = Called("apply_loss_fn", i, 0)
    /\ LET e == ApplyGradientsErr(insts[i], grads, NoKwargs)
       IN  Return(IF e = NoError
                  THEN ApplyGradientsState(insts[i], grads, NoKwargs)
                  ELSE insts[i],
                  e,
                  IF has_aux /\ e = NoError THEN InfoUpdate(info, grads) ELSE NoOut)

__call__(i, params, extra_variables, method) ==
    /\ i \in 1..Len(insts)
    /\ last' = Called("__call__", i, 0)
    /\ err' = CallErr(method)
    /\ out' = IF CallErr(method) = NoError
              THEN [apply_fn |-> insts[i].apply_fn,
                    variables |-> CallVariables(insts[i], params, extra_variables),
                    method |-> CallMethod(insts[i], method)]
              ELSE NoOut
    /\ UNCHANGED <<insts, ndev, replicas, call>>

shard_batch(batch) ==
    /\ last' = Called("shard_batch", 0, 0)
    /\ err' = ShardErr(batch, ndev)
    /\ out' = IF ShardErr(batch, ndev) = NoError
              THEN ShardBatch(batch, ndev)
              ELSE NoOut
    /\ UNCHANGED <<insts, ndev, replicas, call>>

(***************************************************************************)
(* apply_loss_fn under pmap: every replica of the axis runs the same call  *)
(* on its own TrainState.  A replica computes its local gradients          *)
(* (LossGrad), meets the others at each pmean (PmeanGrads, PmeanInfo) and  *)
(* then applies the gradients (Apply).                                     *)
(***************************************************************************)
NoAxis == "None"
Replicas == 1..ndev

Replica(ts) ==
    [pc |-> "grad", ts |-> ts, start |-> ts,
     local |-> NoOut, grads |-> NoOut, local_info |-> NoOut, info |-> NoOut]

LossGrad(r, g, info) ==
    /\ replicas[r].pc = "grad"
    /\ SameStructure(g, replicas[r].ts.params)
    /\ replicas' = [replicas EXCEPT
            ![r].local = g,
            ![r].grads = g,
            ![r].local_info = IF call.has_aux THEN info ELSE NoOut,
            ![r].info = IF call.has_aux THEN info ELSE NoOut,
            ![r].pc = IF call.pmap_axis # NoAxis THEN "pmean_grads" ELSE "apply"]
    /\ UNCHANGED <<insts, last, err, out, ndev, call>>

PmeanGrads ==
    /\ \A r \in Replicas : replicas[r].pc = "pmean_grads"
    /\ replicas' = [r \in Replicas |-> [replicas[r] EXCEPT
            !.grads = Pmean([q \in Replicas |-> replicas[q].grads], r, ndev),
            !.pc = IF call.has_aux THEN "pmean_info" ELSE "apply"]]
    /\ UNCHANGED <<insts, last, err, out, ndev, call>>

PmeanInfo ==
    /\ \A r \in Replicas : replicas[r].pc = "pmean_info"
    /\ replicas' = [r \in Replicas |-> [replicas[r] EXCEPT
            !.info = Pmean([q \in Replicas |-> replicas[q].info], r, ndev),
            !.pc = "apply"]]
    /\ UNCHANGED <<insts, last, err, out, ndev, call>>

Apply(r) ==
    /\ replicas[r].pc = "apply"
    /\ LET self == replicas[r].ts
           grads == replicas[r].grads
           e == ApplyGradientsErr(self, grads, NoKwargs)
       IN  replicas' = [replicas EXCEPT
            ![r].info = IF call.has_aux THEN InfoUpdate(@, grads) ELSE @,
            ![r].ts = IF e = NoError
                      THEN ApplyGradientsState(self, grads, NoKwargs)
                      ELSE @,
            ![r].pc = IF e = NoError THEN "done" ELSE "raised"]
    /\ UNCHANGED <<insts, last, err, out, ndev, call>>

\* the training loop makes the same call again on the states it got back
NextCall ==
    /\ \A r \in Replicas : replicas[r].pc = "done" /\ replicas[r].ts.step < MaxStep
    /\ replicas' = [r \in Replicas |-> Replica(replicas[r].ts)]
    /\ UNCHANGED <<insts, last, err, out, ndev, call>>

Init ==
    /\ insts = <<>>
    /\ last = Called("init", 0, 0)
    /\ err = NoError
    /\ out = NoOut
    /\ ndev = 1
    /\ replicas = <<>>
    /\ call = [has_aux |-> FALSE, pmap_axis |-> NoAxis]

Next ==
    \/ \E m \in ModelDefs, tx \in TxSet \cup {NoTx}, kw \in CreateKwargs :
         \E p \in ParamInputs(m) :
            create(m, p, tx, kw)
    \/ \E i \in 1..MaxInsts, g \in GradInputs, kw \in ReplaceKwargs :
            apply_gradients(i, g, kw)
    \/ \E i \in 1..MaxInsts, j \in 1..MaxInsts, tau \in TauInputs :
            target_update(i, j, tau)
    \/ \E i \in 1..MaxInsts, g \in GradInputs, has_aux \in BOOLEAN, info \in InfoInputs :
            apply_loss_fn(i, g, has_aux, info)
    \/ \E i \in 1..MaxInsts, m \in {NoMethod, MethodName("decode")} :
            __call__(i, None, None, m)

Spec == Init /\ [][Next]_vars

(***************************************************************************)
(* target_update on parameter trees that hold non-finite leaves, as a      *)
(* diverged run leaves them.                                               *)
(***************************************************************************)
TargetParams(model_def) ==
    IF model_def = "mlp"
    THEN {[w |-> Fin(2)], [w |-> Fin(-3)], [w |-> PosInf], [w |-> NaN]}
    ELSE {[w |-> One, b |-> Zero], [w |-> One, b |-> NegInf]}

NextTarget ==
    \/ \E m \in ModelDefs : \E p \in TargetParams(m) : create(m, p, NoTx, NoKwargs)
    \/ \E i \in 1..MaxInsts, j \in 1..MaxInsts, tau \in TauInputs :
            target_update(i, j, tau)

SpecTarget == Init /\ [][NextTarget]_vars

(***************************************************************************)
(* __call__ with every combination of its arguments.                       *)
(***************************************************************************)
NextCallable ==
    \/ \E m \in ModelDefs : \E p \in ParamInputs(m) : create(m, p, NoTx, NoKwargs)
    \/ \E i \in 1..MaxInsts, p \in ParamArgs, ev \in ExtraVariables, m \in Methods :
            __call__(i, p, ev, m)

SpecCall == Init /\ [][NextCallable]_vars

(***************************************************************************)
(* shard_batch on 1..MaxDevices devices.                                   *)
(***************************************************************************)
Rows(n, base) == [i \in 1..n |-> base + i]
Leaves == {Rows(n, base) : n \in 0..MaxLead, base \in {0, 10}}
BatchInputs == [{"observations", "actions"} -> Leaves]

InitShard ==
    /\ insts = <<>>
    /\ last = Called("init", 0, 0)
    /\ err = NoError
    /\ out = NoOut
    /\ ndev \in 1..MaxDevices
    /\ replicas = <<>>
    /\ call = [has_aux |-> FALSE, pmap_axis |-> NoAxis]

NextShard == \E b \in BatchInputs : shard_batch(b)

SpecShard == InitShard /\ [][NextShard]_vars

(***************************************************************************)
(* apply_loss_fn on the replicas of a pmap axis.  tx, apply_fn and         *)
(* model_def are static and so the same on every replica; step, params     *)
(* and opt_state are per replica.  Under pmap the call names the axis;     *)
(* the call without pmap_axis is the action apply_loss_fn above.           *)
(***************************************************************************)
PmapParams == {[w |-> Zero], [w |-> One]}
PmapGrads == {[w |-> One], [w |-> Fin(-2)]}
PmapInfo == {[loss |-> One], [loss |-> Zero]}
Axes == {"batch"}

InitPmap ==
    /\ insts = <<>>
    /\ last = Called("init", 0, 0)
    /\ err = NoError
    /\ out = NoOut
    /\ ndev \in 1..MaxReplicas
    /\ call \in [has_aux : BOOLEAN, pmap_axis : Axes]
    /\ \E tx \in TxSet :
         replicas \in [1..ndev -> {Replica(CreateState("mlp", p, tx)) : p \in PmapParams}]

NextPmap ==
    \/ \E r \in Replicas, g \in PmapGrads, info \in PmapInfo : LossGrad(r, g, info)
    \/ PmeanGrads
    \/ PmeanInfo
    \/ \E r \in Replicas : Apply(r)
    \/ NextCall

SpecPmap == InitPmap /\ [][NextPmap]_vars

(***************************************************************************)
(* Properties.                                                             *)
(***************************************************************************)
\* the instance the last operation built
New == insts[Len(insts)]

\* the instances that existed before a step are the same after it
InstancesKept == \A k \in 1..Len(insts) : insts'[k] = insts[k]

\* the step appended one instance and called op on instance self
Built(op) == last'.op = op /\ err' = NoError /\ Len(insts') = Len(insts) + 1

\* C1: apply_gradients(grads=grads) on an instance with a tx and with grads of the
\* structure of params returns a new instance whose step is the step of the
\* original plus one, and leaves every instance that existed as it was.
C1_ApplyGradientsStep ==
    [][last'.op = "apply_gradients"
       => \A g \in GradInputs :
            LET i == last'.self
            IN  (/\ apply_gradients(i, g, NoKwargs)
                 /\ insts[i].tx # NoTx
                 /\ SameStructure(g, insts[i].params))
                => /\ Built("apply_gradients")
                   /\ insts'[Len(insts')].step = insts[i].step + 1
                   /\ InstancesKept]_vars

C1_Witness ==
    /\ last.op = "apply_gradients"
    /\ err = NoError
    /\ New.step = insts[last.self].step + 1
    /\ New.params # insts[last.self].params

\* C2: create(model_def, params, tx) returns an instance with step 1 whose
\* opt_state is None exactly when tx is None, and is tx.init(params) otherwise.
C2_CreateStepOne ==
    (last.op = "create" /\ err = NoError)
    => /\ New.step = 1
       /\ (New.opt_state = NoneState) <=> (New.tx = NoTx)
       /\ New.tx = "sgd" => New.opt_state = [kind |-> "EmptyState"]
       /\ New.tx = "momentum"
            => /\ New.opt_state.kind = "TraceState"
               /\ DOMAIN New.opt_state.trace = DOMAIN New.params
               /\ \A k \in DOMAIN New.params : New.opt_state.trace[k] = Zero

C2_Witness ==
    /\ last.op = "create"
    /\ err = NoError
    /\ New.tx = "momentum"
    /\ \E k \in 1..Len(insts) : insts[k].tx = NoTx /\ insts[k].step = 1

\* opt_state is None exactly when tx is None
OptStateIffTx(ts) == (ts.opt_state = NoneState) <=> (ts.tx = NoTx)

\* C3, as claimed: in every instance reachable from create by apply_gradients
\* (with or without extra replaced fields), apply_loss_fn and target_update,
\* opt_state is None if and only if tx is None.
C3_Original == \A k \in 1..Len(insts) : OptStateIffTx(insts[k])

\* C3, amended: the same, for every sequence of operations in which no
\* apply_gradients is given tx=None as an extra replaced field: create builds
\* such an instance, and every other operation keeps the property.
C3_OptStateIffTx ==
    [][(/\ \A k \in 1..Len(insts) : OptStateIffTx(insts[k])
        /\ ~ (/\ last'.op = "apply_gradients"
              /\ \E g \in GradInputs :
                    apply_gradients(last'.self, g, [tx |-> NoTx])))
       => \A k \in 1..Len(insts') : OptStateIffTx(insts'[k])]_vars

C3_Witness ==
    /\ last.op = "apply_gradients"
    /\ err = NoError
    /\ insts[last.self].tx = "momentum"
    /\ New.tx = "sgd"
    /\ \A k \in 1..Len(insts) : OptStateIffTx(insts[k])

\* the fields that are fixed at creation
Fixed == {"apply_fn", "model_def", "tx"}

\* C4, as claimed: step, params and opt_state change only through
\* apply_gradients, none of them differs from the predecessor's while step is
\* the same, and apply_fn, model_def and tx never differ from the predecessor's.
C4_Original ==
    [][(Len(insts') = Len(insts) + 1 /\ last'.op # "create")
       => LET new == insts'[Len(insts')]
              old == insts[last'.self]
          IN  /\ last'.op \notin {"apply_gradients", "apply_loss_fn"}
                    => /\ new.step = old.step
                       /\ new.params = old.params
                       /\ new.opt_state = old.opt_state
              /\ new.step = old.step
                    => new.params = old.params /\ new.opt_state = old.opt_state
              /\ \A f \in Fixed : new[f] = old[f]]_vars

\* C4, amended: step and opt_state change only through apply_gradients (called
\* directly or by apply_loss_fn), which adds one to step; params changes through
\* apply_gradients or through target_update, which leaves the target's step and
\* opt_state as they were; apply_fn, model_def and tx are those of the
\* predecessor, except the ones apply_gradients is given as extra replaced fields.
C4_ChangeTogether ==
    [][(Len(insts') = Len(insts) + 1 /\ last'.op # "create")
       => LET new == insts'[Len(insts')]
              old == insts[last'.self]
          IN  /\ last'.op \in {"apply_gradients", "apply_loss_fn"}
                    => new.step = old.step + 1
              /\ last'.op \notin {"apply_gradients", "apply_loss_fn"}
                    => /\ last'.op = "target_update"
                       /\ new.step = old.step
                       /\ new.opt_state = old.opt_state
              /\ last'.op # "apply_gradients" => \A f \in Fixed : new[f] = old[f]
              /\ \A g \in GradInputs, kw \in ReplaceKwargs :
                    apply_gradients(last'.self, g, kw)
                    => \A f \in Fixed \ DOMAIN kw : new[f] = old[f]]_vars

C4_Witness ==
    /\ last.op = "target_update"
    /\ err = NoError
    /\ New.params # insts[last.self].params
    /\ New.step = insts[last.self].step
    /\ New.step # insts[last.other].step
    /\ \E k \in 1..Len(insts) : insts[k].step = 2

\* C6: target_update(source, target, tau) returns an instance with the step,
\* opt_state, tx, apply_fn and model_def of target, none of them taken from
\* source, and leaves every instance that existed as it was.
C6_TargetUpdateFrame ==
    [][last'.op = "target_update"
       => \A tau \in TauInputs :
            LET i == last'.other
                j == last'.self
            IN  target_update(i, j, tau)
                => /\ InstancesKept
                   /\ err' = NoError
                        => /\ Len(insts') = Len(insts) + 1
                           /\ \A f \in Fields \ {"params"} :
                                  insts'[Len(insts')][f] = insts[j][f]]_vars

C6_Witness ==
    /\ last.op = "target_update"
    /\ err = NoError
    /\ \A f \in {"step", "opt_state", "tx"} :
            /\ insts[last.other][f] # insts[last.self][f]
            /\ New[f] = insts[last.self][f]
    /\ New.params # insts[last.self].params

\* C8: apply_gradients, called directly or by apply_loss_fn, on an instance
\* whose tx is None raises; no instance is built and none is changed.
C8_NoTxRaises ==
    [][last'.op \in {"apply_gradients", "apply_loss_fn"}
       => \A g \in GradInputs :
            LET i == last'.self
            IN  /\ \A kw \in ReplaceKwargs :
                      (apply_gradients(i, g, kw) /\ insts[i].tx = NoTx)
                      => err' = "AttributeError" /\ insts' = insts
                /\ \A has_aux \in BOOLEAN, info \in InfoInputs :
                      (apply_loss_fn(i, g, has_aux, info) /\ insts[i].tx = NoTx)
                      => /\ err' = "AttributeError"
                         /\ insts' = insts
                         /\ out' = NoOut]_vars

C8_Witness ==
    /\ last.op \in {"apply_gradients", "apply_loss_fn"}
    /\ err = "AttributeError"
    /\ insts[last.self].tx = NoTx
    /\ Len(insts) > 1

AllFinite(tree) == \A k \in DOMAIN tree : IsFinite(tree[k])

\* C5, as claimed: for all src and tgt with parameter trees of the same
\* structure, target_update(src, tgt, 1) has the params of src and
\* target_update(src, tgt, 0) has the params of tgt, leaf for leaf.
C5_Original ==
    [][last'.op = "target_update"
       => \A tau \in {Zero, One} :
            LET i == last'.other
                j == last'.self
            IN  (target_update(i, j, tau) /\ err' = NoError)
                => insts'[Len(insts')].params
                      = IF tau = One THEN insts[i].params ELSE insts[j].params]_vars

\* C5, amended: the same for src and tgt whose leaves are all finite; and for
\* every tau each leaf is tau * src_leaf + (1 - tau) * tgt_leaf in float
\* arithmetic, where a non-finite leaf of the tree weighted by 0 gives NaN.
C5_TargetUpdateBlend ==
    [][last'.op = "target_update"
       => \A tau \in TauInputs :
            LET new == insts'[Len(insts')].params
                src == insts[last'.other].params
                tgt == insts[last'.self].params
            IN  (target_update(last'.other, last'.self, tau) /\ err' = NoError)
                => /\ DOMAIN new = DOMAIN src
                   /\ \A k \in DOMAIN new :
                        new[k] = FAdd(FMul(tau, src[k]), FMul(FSub(One, tau), tgt[k]))
                   /\ (AllFinite(src) /\ AllFinite(tgt))
                        => /\ tau = One => new = src
                           /\ tau = Zero => new = tgt
                           /\ \A k \in DOMAIN new :
                                new[k][1] * (tau[2] * src[k][2] * tgt[k][2])
                                  = new[k][2]
                                    * (tau[1] * src[k][1] * tgt[k][2]
                                       + (tau[2] - tau[1]) * tgt[k][1] * src[k][2])]_vars

C5_Witness ==
    /\ last.op = "target_update"
    /\ err = NoError
    /\ AllFinite(insts[last.other].params)
    /\ AllFinite(insts[last.self].params)
    /\ insts[last.other].params # insts[last.self].params
    /\ New.params = insts[last.other].params

\* the rows of a sharded leaf, one device after the other
RECURSIVE Flatten(_, _)
Flatten(y, d) == IF d = 0 THEN <<>> ELSE Flatten(y, d - 1) \o y[d]

\* C7: shard_batch raises an AssertionError when the leading dimension N of some
\* leaf is not a multiple of the device count D; otherwise it returns the same
\* mapping with every leaf reshaped to D rows of N / D elements, element i of the
\* leaf at row i div (N / D), column i mod (N / D), so that the rows put one
\* after the other are the leaf.
C7_ShardBatch ==
    [][\A batch \in BatchInputs :
          shard_batch(batch)
          => IF \E k \in DOMAIN batch : Len(batch[k]) % ndev # 0
             THEN err' = "AssertionError" /\ out' = NoOut
             ELSE /\ err' = NoError
                  /\ DOMAIN out' = DOMAIN batch
                  /\ \A k \in DOMAIN batch :
                        LET n == Len(batch[k]) \div ndev
                        IN  /\ Len(out'[k]) = ndev
                            /\ \A a \in 1..ndev : Len(out'[k][a]) = n
                            /\ Flatten(out'[k], ndev) = batch[k]
                            /\ \A i \in 0..(Len(batch[k]) - 1) :
                                 out'[k][(i \div n) + 1][(i % n) + 1] = batch[k][i + 1]]_vars

C7_Witness ==
    /\ last.op = "shard_batch"
    /\ err = NoError
    /\ ndev > 1
    /\ \E k \in DOMAIN out : Len(out[k][1]) > 1
    /\ \E k \in DOMAIN out : out[k][2] # out[k][1]

\* C9: the variables handed to apply_fn are {"params": p} merged with
\* extra_variables, p being the params argument or, when it is None, self.params:
\* every key of extra_variables has the caller's value ("params" too), "params"
\* is p when extra_variables does not name it, and there is no other key.
C9_CallVariables ==
    [][\A params \in ParamArgs, ev \in ExtraVariables, m \in Methods :
          (last'.op = "__call__" /\ __call__(last'.self, params, ev, m)
           /\ err' = NoError)
          => LET i == last'.self
                 p == IF params = None THEN insts[i].params ELSE params[1]
                 extra == IF ev = None THEN NoKwargs ELSE ev[1]
                 v == out'.variables
             IN  /\ DOMAIN v = {"params"} \cup DOMAIN extra
                 /\ \A k \in DOMAIN extra : v[k] = extra[k]
                 /\ "params" \notin DOMAIN extra => v["params"] = p]_vars

C9_Witness ==
    /\ last.op = "__call__"
    /\ err = NoError
    /\ DOMAIN out.variables = {"params", "batch_stats"}
    /\ out.variables["params"] # insts[last.self].params
    /\ DOMAIN out.variables["params"] # DOMAIN insts[last.self].params

\* the keys info.update writes
StatKeys == {"grad/max", "grad/min", "grad/norm"}

====
